---- MODULE Spec2Model ----
(***************************************************************************)
(* Capacity reservation engine of Bookati: booking locks, the booking      *)
(* transaction of POST /bookings/create and the lock cleanup job.          *)
(*                                                                         *)
(* The database is PostgreSQL at READ COMMITTED.  A statement sees the     *)
(* rows committed when it starts; the writes of an open transaction are    *)
(* kept in the client's record until COMMIT; the slot row lock taken by    *)
(* SELECT ... FOR UPDATE makes every other statement that needs the row    *)
(* wait, which is a disabled action here.  The handler's DELETE of the     *)
(* consumed lock and its COMMIT are one step: between the two only         *)
(* statements on that same lock row are affected, and they wait for the    *)
(* COMMIT.                                                                 *)
(*                                                                         *)
(* A field of a request body is drawn in the step that first reads it.     *)
(* A response is handed to its caller (Send) before the next statement     *)
(* runs; sending touches no shared state, so no interleaving is lost.      *)
(*                                                                         *)
(* Time is counted in seconds and advances in steps of one cleanup         *)
(* interval.  A failing database query is modelled for createBooking and   *)
(* for the cleanup job; the catch blocks of the lock handlers answer 500   *)
(* after a query that wrote nothing.                                       *)
(***************************************************************************)
EXTENDS Integers, FiniteSets, Sequences, TLC

\* ------------------------------------------------------------------ bounds
NSlots == 1
MaxCapacity == 2
MaxLocks == 2
MaxReqs == 2
MaxTicks == 2
MaxJobs == 2
MaxSweeps == 2
MaxQueueTicks == 2
MaxAttempt == 10
MaxDelays == 2
MaxCashiers == 2
MaxCycles == 4
LargeCapacity == 12

\* ------------------------------------------------------- program constants
CLEANUP_INTERVAL == 60000
MAX_RETRIES == 3
INITIAL_DELAY == 1000
MAX_DELAY == 60000
\* maxRetries of startServer
maxRetries == 3
\* interval '5 minutes' of the sweep's selection, in seconds
StaleThreshold == 300
\* LIMIT 10 of the sweep's selection
SweepLimit == 10

TickSeconds == CLEANUP_INTERVAL \div 1000

Slots == 1..NSlots
\* the users who scan; a cashier's number is its user id
Cashiers == 1..MaxCashiers
\* slot_id values a request can carry: the existing slots and one unknown id
SlotIds == 1..(NSlots + 1)
LockIds == 1..MaxLocks
Reqs == 1..MaxReqs
Sessions == {"A", "B"}
Jobs == 1..MaxJobs
Sweeps == 1..MaxSweeps
\* a request without user and without session_id carries "none"
SessionIds == Sessions \cup {"none"}

VARIABLES now, slots, booking_locks, nextLockId, bookings, req, concurrent, vreq, resp,
          queue_jobs, sweep, server, backoff, scan

vars == <<now, slots, booking_locks, nextLockId, bookings, req, concurrent, vreq, resp,
          queue_jobs, sweep, server, backoff, scan>>

Min(a, b) == IF a < b THEN a ELSE b
Max(a, b) == IF a > b THEN a ELSE b

\* ------------------------------------------------- values of a JSON body
\* A count of the request body is a number, or a string of decimal digits:
\* JsString(n) stands for the string that spells n.  -1 is undefined.
JsString(n) == 100000 + n
IsString(x) == x >= JsString(0)
\* the number a value converts to, in a comparison with < and as an integer
\* parameter of a query
ToNumber(x) == IF IsString(x) THEN x - JsString(0) ELSE x
DigitCount(n) == IF n < 10 THEN 1 ELSE IF n < 100 THEN 2 ELSE 3
\* a + b of JavaScript: the sum of two numbers, else the concatenation
JsPlus(a, b) ==
  IF IsString(a) \/ IsString(b)
  THEN JsString(ToNumber(a) * 10^DigitCount(ToNumber(b)) + ToNumber(b))
  ELSE a + b

RECURSIVE SumCapacity(_)
\* SUM(reserved_capacity) over a set of booking_locks rows
SumCapacity(rows) ==
  IF rows = {} THEN 0
  ELSE LET x == CHOOSE y \in rows : TRUE
       IN x.reserved_capacity + SumCapacity(rows \ {x})

RECURSIVE SumVisitors(_)
\* SUM(visitor_count) over a set of bookings rows
SumVisitors(rows) ==
  IF rows = {} THEN 0
  ELSE LET x == CHOOSE y \in rows : TRUE
       IN x.visitor_count + SumVisitors(rows \ {x})

\* ------------------------------------------------------------------- rows
\* CREATE TABLE slots: the capacity columns of a freshly created slot
NewSlot(total, avail) ==
  [total_capacity |-> total, remaining_capacity |-> total,
   available_capacity |-> total, booked_count |-> 0, is_available |-> avail]

NoRow == [id |-> 0]

\* a client of POST /bookings/create: idle until it sends a request, in the
\* transaction while the handler runs, done once its booking is committed
IdleReq ==
  [pc |-> "idle", slot_id |-> 0, visitor_count |-> 0, lock_id |-> 0,
   session_id |-> "none", lock |-> NoRow, seen_available |-> 0,
   row |-> NoRow, deleted |-> FALSE, wrote |-> FALSE, invoice |-> "none",
   ticket |-> "none"]

\* a cashier at POST /bookings/validate-qr: idle, between the SELECT of the
\* booking and the UPDATE (update), or answered success (done)
IdleScan == [pc |-> "idle", booking_id |-> 0]

IdleValidate == [pc |-> "idle", lock_id |-> 0, session_id |-> "none", at |-> 0]

\* a client taken from the pool by pool.connect(): the state of its
\* transaction, the statements that ended one, the calls of release()
NewClient == [tx |-> "none", ended |-> 0, released |-> 0]

\* client.query(statement) for BEGIN, COMMIT and ROLLBACK; outside a
\* transaction COMMIT and ROLLBACK are answered with a warning
Query(client, statement) ==
  IF statement = "BEGIN" THEN [client EXCEPT !.tx = "open"]
  ELSE IF client.tx # "open" THEN client
  ELSE [client EXCEPT !.tx = IF statement = "COMMIT" THEN "committed" ELSE "rolledback",
                      !.ended = @ + 1]

\* client.release()
Release(client) == [client EXCEPT !.released = @ + 1]

\* the response being sent (for the cleanup job: its log entry); client is
\* the pooled client of the create handler as the handler leaves it
NoResp ==
  [op |-> "none", status |-> 0, error |-> "", lock_id |-> 0, count |-> 0,
   wrote |-> FALSE, client |-> NewClient]

Response(op, status) == [NoResp EXCEPT !.op = op, !.status = status]

\* what a sweep holds of a job: nothing, the selected row whose UPDATE to
\* 'processing' is still to run (mark), or the row on its way through
\* processReceiptJob (process); attempt is the selected row's payload.attempt
NoWork == [pc |-> "none", attempt |-> 0]

\* the server process before startServer has run: pc is its position,
\* attempt the connection tests made and connected the last test's result;
\* cleanupInterval tells whether the variable holds a timer, timers counts
\* the timers set by setInterval and not cleared, pending counts the
\* calls of cleanupExpiredLocks whose query has not run yet, cycles the calls
\* made since the start and failed the cycles whose query threw
Booting ==
  [pc |-> "testing", attempt |-> 0, connected |-> FALSE, cleanupInterval |-> FALSE,
   timers |-> 0, receiptWorker |-> FALSE, pending |-> 0, cycles |-> 0, failed |-> 0]

\* everything but the slots
InitIdle ==
  /\ now = 0
  /\ booking_locks = {}
  /\ nextLockId = 1
  /\ bookings = {}
  /\ req = [r \in Reqs |-> IdleReq]
  /\ concurrent = {}
  /\ vreq = IdleValidate
  /\ resp = NoResp
  /\ queue_jobs = <<>>
  /\ sweep = [w \in Sweeps |-> [j \in Jobs |-> NoWork]]
  /\ server = Booting
  /\ backoff = <<>>
  /\ scan = [c \in Cashiers |-> IdleScan]

Init ==
  /\ slots \in [Slots -> {NewSlot(t, a) : t \in 1..MaxCapacity, a \in BOOLEAN}]
  /\ InitIdle

\* the previous response has been sent
Ready == resp = NoResp

\* res.json(...) has been written
Send ==
  /\ resp # NoResp
  /\ resp' = NoResp
  /\ UNCHANGED <<now, slots, booking_locks, nextLockId, bookings, req, concurrent, vreq>>
  /\ UNCHANGED <<queue_jobs, sweep, server, backoff, scan>>

\* ------------------------------------------------------------- row locks
InTx(r) == req[r].pc \in {"lockcheck", "slotcheck", "insert", "commit"}

\* the transactions holding the slot row after SELECT ... FOR UPDATE
SlotRowHolders(s) ==
  {r \in Reqs : req[r].pc \in {"insert", "commit"} /\ req[r].slot_id = s}

\* ------------------------------------------------------------------ time
Tick ==
  /\ Ready
  /\ UNCHANGED <<queue_jobs, sweep, server, backoff, scan>>
  /\ now + TickSeconds <= MaxTicks * TickSeconds
  /\ now' = now + TickSeconds
  /\ UNCHANGED <<slots, booking_locks, nextLockId, bookings, req, concurrent, vreq, resp>>

\* ------------------------------------------------------- Slot Ledger (DB)
\* a reservation that does not look at the capacity left
TryReserveUnchecked(s, amount) == slots[s].is_available

\* tryReserve: succeeds iff the slot is available and has the amount
TryReserve(s, amount) ==
  slots[s].is_available /\ slots[s].available_capacity >= amount

\* a lock insert that leaves the slot's capacity as it was
AcquireBookingLockNoReserve(s, sessionId, amount, ttl) ==
  /\ slots' = slots
  /\ booking_locks' = booking_locks \cup
       {[id |-> nextLockId, slot_id |-> s, reserved_by_session_id |-> sessionId,
         reserved_capacity |-> amount, lock_expires_at |-> now + ttl]}
  /\ nextLockId' = nextLockId + 1

\* acquire_booking_lock(slot, session, amount, ttl): reservation check and
\* lock insert as one unit under the slot's row lock
AcquireBookingLock(s, sessionId, amount, ttl) ==
  /\ slots' = [slots EXCEPT ![s].available_capacity = @ - amount]
  /\ booking_locks' = booking_locks \cup
       {[id |-> nextLockId, slot_id |-> s, reserved_by_session_id |-> sessionId,
         reserved_capacity |-> amount, lock_expires_at |-> now + ttl]}
  /\ nextLockId' = nextLockId + 1

\* validate_booking_lock(lock, session)
ValidateBookingLock(lock_id, sessionId) ==
  \E l \in booking_locks :
    /\ l.id = lock_id
    /\ l.reserved_by_session_id = sessionId
    /\ l.lock_expires_at > now

\* the handler with a catch block that maps no error message to 409
AcquireLockUnmapped(slot_id, sessionId, reserved_capacity) ==
  /\ Ready
  /\ UNCHANGED <<queue_jobs, sweep, server, backoff, scan>>
  /\ UNCHANGED <<now, bookings, req, concurrent, vreq>>
  /\ \/ /\ slot_id = 0 \/ reserved_capacity < 1
        /\ resp' = Response("lock", 400)
        /\ UNCHANGED <<slots, booking_locks, nextLockId>>
     \/ /\ slot_id # 0
        /\ reserved_capacity >= 1
        /\ slot_id \notin Slots \/ ~TryReserve(slot_id, reserved_capacity)
        /\ slot_id \in Slots => SlotRowHolders(slot_id) = {}
        /\ resp' = Response("lock", 500)
        /\ UNCHANGED <<slots, booking_locks, nextLockId>>
     \/ /\ slot_id \in Slots
        /\ reserved_capacity >= 1
        /\ SlotRowHolders(slot_id) = {}
        /\ TryReserve(slot_id, reserved_capacity)
        /\ nextLockId <= MaxLocks
        /\ AcquireBookingLock(slot_id, sessionId, reserved_capacity, 120)
        /\ resp' = [Response("lock", 200) EXCEPT !.lock_id = nextLockId]

\* ------------------------------------------------------ POST /bookings/lock
\* slot_id 0 stands for a request body without slot_id
AcquireLock(slot_id, sessionId, reserved_capacity) ==
  /\ Ready
  /\ UNCHANGED <<queue_jobs, sweep, server, backoff, scan>>
  /\ UNCHANGED <<now, bookings, req, concurrent, vreq>>
  /\ \/ /\ slot_id = 0
        /\ resp' = Response("lock", 400)
        /\ UNCHANGED <<slots, booking_locks, nextLockId>>
     \/ /\ slot_id # 0
        /\ reserved_capacity < 1
        /\ resp' = Response("lock", 400)
        /\ UNCHANGED <<slots, booking_locks, nextLockId>>
     \/ /\ slot_id # 0
        /\ reserved_capacity >= 1
        /\ slot_id \notin Slots
        /\ resp' = Response("lock", 500)
        /\ UNCHANGED <<slots, booking_locks, nextLockId>>
     \/ /\ slot_id \in Slots
        /\ reserved_capacity >= 1
        /\ SlotRowHolders(slot_id) = {}
        /\ ~TryReserve(slot_id, reserved_capacity)
        /\ resp' = Response("lock", 409)
        /\ UNCHANGED <<slots, booking_locks, nextLockId>>
     \/ /\ slot_id \in Slots
        /\ reserved_capacity >= 1
        /\ SlotRowHolders(slot_id) = {}
        /\ TryReserve(slot_id, reserved_capacity)
        /\ nextLockId <= MaxLocks
        /\ AcquireBookingLock(slot_id, sessionId, reserved_capacity, 120)
        /\ resp' = [Response("lock", 200) EXCEPT !.lock_id = nextLockId]

\* --------------------------------------- GET /bookings/lock/:lock_id/validate
\* the handler without its isValid test: every lock id goes on to the second query
ValidateLockUnchecked(lock_id, sessionId) ==
  /\ Ready
  /\ UNCHANGED <<queue_jobs, sweep, server, backoff, scan>>
  /\ vreq.pc = "idle"
  /\ UNCHANGED <<now, slots, booking_locks, nextLockId, bookings, req, concurrent>>
  /\ \/ /\ sessionId = "none"
        /\ resp' = Response("validate", 400)
        /\ UNCHANGED vreq
     \/ /\ sessionId # "none"
        /\ vreq' = [pc |-> "info", lock_id |-> lock_id, session_id |-> sessionId, at |-> now]
        /\ UNCHANGED resp

\* first query: validate_booking_lock; a valid lock goes on to the second query
ValidateLock(lock_id, sessionId) ==
  /\ Ready
  /\ UNCHANGED <<queue_jobs, sweep, server, backoff, scan>>
  /\ vreq.pc = "idle"
  /\ UNCHANGED <<now, slots, booking_locks, nextLockId, bookings, req, concurrent>>
  /\ \/ /\ sessionId = "none"
        /\ resp' = Response("validate", 400)
        /\ UNCHANGED vreq
     \/ /\ sessionId # "none"
        /\ ~ValidateBookingLock(lock_id, sessionId)
        /\ resp' = [Response("validate", 409) EXCEPT !.lock_id = lock_id]
        /\ UNCHANGED vreq
     \/ /\ sessionId # "none"
        /\ ValidateBookingLock(lock_id, sessionId)
        /\ vreq' = [pc |-> "info", lock_id |-> lock_id, session_id |-> sessionId, at |-> now]
        /\ UNCHANGED resp

\* second query: the lock's expiry, read by id; status 200 carries valid: true
\* and count the seconds_remaining
ValidateLockInfo ==
  /\ Ready
  /\ UNCHANGED <<queue_jobs, sweep, server, backoff, scan>>
  /\ vreq.pc = "info"
  /\ vreq' = IdleValidate
  /\ UNCHANGED <<now, slots, booking_locks, nextLockId, bookings, req, concurrent>>
  /\ LET rows == {l \in booking_locks : l.id = vreq.lock_id}
     IN \/ /\ rows = {}
           /\ resp' = [Response("validate", 404) EXCEPT !.lock_id = vreq.lock_id]
        \/ /\ rows # {}
           /\ \E l \in rows :
                resp' = [Response("validate", 200) EXCEPT
                           !.lock_id = vreq.lock_id,
                           !.count = Max(0, l.lock_expires_at - now)]

\* -------------------------------------- POST /bookings/lock/:lock_id/release
\* a DELETE that matches the id alone
ReleaseRowsById(lock_id, sessionId) ==
  {l \in booking_locks : l.id = lock_id}

\* DELETE FROM booking_locks WHERE id = $1 AND reserved_by_session_id = $2
ReleaseRows(lock_id, sessionId) ==
  {l \in booking_locks : l.id = lock_id /\ l.reserved_by_session_id = sessionId}

\* a release that answers 200 whether or not a row was deleted
ReleaseLockAlwaysOk(lock_id, sessionId) ==
  /\ Ready
  /\ UNCHANGED <<queue_jobs, sweep, server, backoff, scan>>
  /\ UNCHANGED <<now, slots, nextLockId, bookings, req, concurrent, vreq>>
  /\ \/ /\ sessionId = "none"
        /\ resp' = [Response("release", 400) EXCEPT !.lock_id = lock_id]
        /\ UNCHANGED booking_locks
     \/ /\ sessionId # "none"
        /\ booking_locks' = booking_locks \ ReleaseRows(lock_id, sessionId)
        /\ resp' = [Response("release", 200) EXCEPT !.lock_id = lock_id]

\* a release that also gives the lock's amount back to the slot
ReleaseLockReturning(lock_id, sessionId) ==
  /\ Ready
  /\ UNCHANGED <<queue_jobs, sweep, server, backoff, scan>>
  /\ UNCHANGED <<now, nextLockId, bookings, req, concurrent, vreq>>
  /\ \/ /\ sessionId = "none"
        /\ resp' = [Response("release", 400) EXCEPT !.lock_id = lock_id]
        /\ UNCHANGED <<booking_locks, slots>>
     \/ /\ sessionId # "none"
        /\ ReleaseRows(lock_id, sessionId) = {}
        /\ resp' = [Response("release", 404) EXCEPT !.lock_id = lock_id]
        /\ UNCHANGED <<booking_locks, slots>>
     \/ /\ sessionId # "none"
        /\ ReleaseRows(lock_id, sessionId) # {}
        /\ booking_locks' = booking_locks \ ReleaseRows(lock_id, sessionId)
        /\ slots' = [s \in Slots |->
             [slots[s] EXCEPT !.available_capacity =
                Min(slots[s].total_capacity,
                    @ + SumCapacity({l \in ReleaseRows(lock_id, sessionId) : l.slot_id = s}))]]
        /\ resp' = [Response("release", 200) EXCEPT !.lock_id = lock_id]

\* DELETE ... RETURNING id: 404 when no row was deleted, else 200
ReleaseLock(lock_id, sessionId) ==
  /\ Ready
  /\ UNCHANGED <<queue_jobs, sweep, server, backoff, scan>>
  /\ UNCHANGED <<now, slots, nextLockId, bookings, req, concurrent, vreq>>
  /\ \/ /\ sessionId = "none"
        /\ resp' = [Response("release", 400) EXCEPT !.lock_id = lock_id]
        /\ UNCHANGED booking_locks
     \/ /\ sessionId # "none"
        /\ ReleaseRows(lock_id, sessionId) = {}
        /\ resp' = [Response("release", 404) EXCEPT !.lock_id = lock_id]
        /\ UNCHANGED booking_locks
     \/ /\ sessionId # "none"
        /\ ReleaseRows(lock_id, sessionId) # {}
        /\ booking_locks' = booking_locks \ ReleaseRows(lock_id, sessionId)
        /\ resp' = [Response("release", 200) EXCEPT !.lock_id = lock_id]

\* ------------------------------------------------------ lock cleanup job
\* the rows of DELETE FROM booking_locks WHERE lock_expires_at <= NOW()
ExpiredLocks == {l \in booking_locks : l.lock_expires_at <= now}

\* a cycle that reports the expired rows and leaves them in the table
cleanupExpiredLocksNoDelete ==
  /\ Ready
  /\ UNCHANGED <<queue_jobs, sweep, server, backoff, scan>>
  /\ UNCHANGED <<now, slots, nextLockId, bookings, req, concurrent, vreq>>
  /\ resp' = [Response("cleanup", 0) EXCEPT !.count = Cardinality(ExpiredLocks)]
  /\ UNCHANGED booking_locks

\* a cycle that deletes one expired row at most
cleanupExpiredLocksOne ==
  /\ Ready
  /\ UNCHANGED <<queue_jobs, sweep, server, backoff, scan>>
  /\ UNCHANGED <<now, slots, nextLockId, bookings, req, concurrent, vreq>>
  /\ \/ /\ ExpiredLocks = {}
        /\ resp' = Response("cleanup", 0)
        /\ UNCHANGED booking_locks
     \/ \E l \in ExpiredLocks :
          /\ booking_locks' = booking_locks \ {l}
          /\ resp' = [Response("cleanup", 0) EXCEPT !.count = 1]

\* one cycle; count is the logged rowCount
cleanupExpiredLocks ==
  /\ Ready
  /\ UNCHANGED <<queue_jobs, sweep, server, backoff, scan>>
  /\ UNCHANGED <<now, slots, nextLockId, bookings, req, concurrent, vreq>>
  /\ \/ /\ booking_locks' = booking_locks \ ExpiredLocks
        /\ resp' = [Response("cleanup", 0) EXCEPT !.count = Cardinality(ExpiredLocks)]
     \/ \* the query throws: logged, nothing deleted
        /\ resp' = [Response("cleanup", 500) EXCEPT !.error = "error"]
        /\ UNCHANGED booking_locks

\* ------------------------------------------------------- server start-up
\* one turn of the loop of startServer; result is what testConnection gives
\* (its body is in db.ts): "ok", "fail", or "throw", which rejects
\* startServer and exits the process
TestConnection(result) ==
  /\ server.pc = "testing"
  /\ server' =
       IF result = "throw" THEN [server EXCEPT !.pc = "exited"]
       ELSE [server EXCEPT
               !.attempt = @ + 1,
               !.connected = (result = "ok"),
               !.pc = IF result = "ok" \/ server.attempt + 1 >= maxRetries
                      THEN "listen" ELSE "testing"]
  /\ UNCHANGED <<now, slots, booking_locks, nextLockId, bookings, req, concurrent, vreq, resp>>
  /\ UNCHANGED <<queue_jobs, sweep, backoff, scan>>

\* a start that does not look at cleanupInterval
startLockCleanupUnguarded(s) ==
  [s EXCEPT !.cleanupInterval = TRUE, !.timers = @ + 1,
            !.pending = @ + 1, !.cycles = @ + 1]

\* startLockCleanup: nothing when the timer is set; else one call of
\* cleanupExpiredLocks at once and the timer
startLockCleanup(s) ==
  IF s.cleanupInterval THEN s
  ELSE [s EXCEPT !.cleanupInterval = TRUE, !.timers = @ + 1,
                 !.pending = @ + 1, !.cycles = @ + 1]

\* stopLockCleanup: clearInterval and null when the timer is set
stopLockCleanup(s) ==
  IF s.cleanupInterval
  THEN [s EXCEPT !.cleanupInterval = FALSE, !.timers = @ - 1]
  ELSE s

\* a call of startLockCleanup at any time
CallStartLockCleanup ==
  /\ server.cycles < MaxCycles
  /\ server' = startLockCleanup(server)
  /\ UNCHANGED <<now, slots, booking_locks, nextLockId, bookings, req, concurrent, vreq, resp>>
  /\ UNCHANGED <<queue_jobs, sweep, backoff, scan>>

\* a call of stopLockCleanup at any time
CallStopLockCleanup ==
  /\ server' = stopLockCleanup(server)
  /\ UNCHANGED <<now, slots, booking_locks, nextLockId, bookings, req, concurrent, vreq, resp>>
  /\ UNCHANGED <<queue_jobs, sweep, backoff, scan>>

\* app.listen and its callback: the server accepts requests and starts the
\* lock cleanup and the receipt worker
Listen ==
  /\ server.pc = "listen"
  /\ server' = [startLockCleanup(server) EXCEPT !.pc = "listening", !.receiptWorker = TRUE]
  /\ UNCHANGED <<now, slots, booking_locks, nextLockId, bookings, req, concurrent, vreq, resp>>
  /\ UNCHANGED <<queue_jobs, sweep, backoff, scan>>

\* POST /bookings/lock reaches its handler once the server listens
ServeAcquireLock(s, sid, n) ==
  /\ server.pc = "listening"
  /\ AcquireLock(s, sid, n)

\* CLEANUP_INTERVAL passes: the timer calls cleanupExpiredLocks
IntervalElapses ==
  /\ Ready
  /\ server.timers > 0
  /\ now + TickSeconds <= MaxTicks * TickSeconds
  /\ now' = now + TickSeconds
  /\ server' = [server EXCEPT !.pending = @ + 1, !.cycles = @ + 1]
  /\ UNCHANGED <<slots, booking_locks, nextLockId, bookings, req, concurrent, vreq, resp>>
  /\ UNCHANGED <<queue_jobs, sweep, backoff, scan>>

\* a cycle whose failure clears the timer
ReaperCycleStopping(throws) ==
  /\ Ready
  /\ server.pending > 0
  /\ server' = [server EXCEPT !.pending = @ - 1,
                              !.failed = IF throws THEN @ + 1 ELSE @,
                              !.cleanupInterval = IF throws THEN FALSE ELSE @]
  /\ IF throws
     THEN /\ resp' = [Response("cleanup", 500) EXCEPT !.error = "error"]
          /\ UNCHANGED booking_locks
     ELSE /\ booking_locks' = booking_locks \ ExpiredLocks
          /\ resp' = [Response("cleanup", 0) EXCEPT !.count = Cardinality(ExpiredLocks)]
  /\ UNCHANGED <<now, slots, nextLockId, bookings, req, concurrent, vreq>>
  /\ UNCHANGED <<queue_jobs, sweep, backoff, scan>>

\* the query of a called cleanupExpiredLocks runs; throws tells whether it
\* throws, which is logged
ReaperCycle(throws) ==
  /\ Ready
  /\ server.pending > 0
  /\ server' = [server EXCEPT !.pending = @ - 1,
                              !.failed = IF throws THEN @ + 1 ELSE @]
  /\ IF throws
     THEN /\ resp' = [Response("cleanup", 500) EXCEPT !.error = "error"]
          /\ UNCHANGED booking_locks
     ELSE /\ booking_locks' = booking_locks \ ExpiredLocks
          /\ resp' = [Response("cleanup", 0) EXCEPT !.count = Cardinality(ExpiredLocks)]
  /\ UNCHANGED <<now, slots, nextLockId, bookings, req, concurrent, vreq>>
  /\ UNCHANGED <<queue_jobs, sweep, backoff, scan>>

\* -------------------------------------------------------- retry backoff
calculateDelayUncapped(attempt) == INITIAL_DELAY * 2^attempt

calculateDelay(attempt) == Min(INITIAL_DELAY * 2^attempt, MAX_DELAY)

\* calculateDelay is applied to an attempt number and its result is noted
ComputeDelay(attempt) ==
  /\ Len(backoff) < MaxDelays
  /\ backoff' = Append(backoff, [attempt |-> attempt, delay |-> calculateDelay(attempt)])
  /\ UNCHANGED <<now, slots, booking_locks, nextLockId, bookings, req, concurrent, vreq, resp>>
  /\ UNCHANGED <<queue_jobs, sweep, server, scan>>

\* --------------------------------------------------- POST /bookings/create
\* Outcome of the tests that read no booking state: required fields,
\* normalizePhoneNumber and the tenants lookup.
Prechecks == {"ok", "missing_fields", "invalid_phone", "tenant_not_found", "tenant_inactive"}

\* the pairs of clients whose current calls overlap in time, without r
NotConcurrentWith(r) == {p \in concurrent : r \notin p}

\* a return that answers without ROLLBACK
ReturnWithoutRollback(r, status, error) ==
  /\ req' = [req EXCEPT ![r] = IdleReq]
  /\ concurrent' = NotConcurrentWith(r)
  /\ resp' = [Response("create", status) EXCEPT
               !.error = error, !.wrote = req[r].wrote,
               !.client = Release(Query(NewClient, "BEGIN"))]
  /\ UNCHANGED <<bookings, booking_locks, slots>>

\* await client.query('ROLLBACK'); return res.status(status).json({error}),
\* from an early return or from the catch block, and client.release() in
\* finally; BEGIN was the handler's first statement.  The caller is idle again.
Rollback(r, status, error) ==
  /\ req' = [req EXCEPT ![r] = IdleReq]
  /\ concurrent' = NotConcurrentWith(r)
  /\ resp' = [Response("create", status) EXCEPT
               !.error = error, !.wrote = req[r].wrote,
               !.client = Release(Query(Query(NewClient, "BEGIN"), "ROLLBACK"))]
  /\ UNCHANGED <<bookings, booking_locks, slots>>

\* BEGIN, required fields, phone number, tenant; lock_id 0 is a body
\* without lock_id
CreateBegin(r, precheck, lock_id) ==
  /\ Ready
  /\ UNCHANGED <<queue_jobs, sweep, server, backoff, scan>>
  /\ req[r].pc = "idle"
  /\ UNCHANGED <<now, nextLockId, vreq>>
  /\ \/ /\ precheck = "missing_fields"
        /\ Rollback(r, 400, "missing_fields")
     \/ /\ precheck = "invalid_phone"
        /\ Rollback(r, 400, "invalid_phone")
     \/ /\ precheck = "tenant_not_found"
        /\ Rollback(r, 404, "tenant_not_found")
     \/ /\ precheck = "tenant_inactive"
        /\ Rollback(r, 403, "tenant_inactive")
     \/ /\ precheck = "ok"
        /\ req' = [req EXCEPT ![r] =
             [IdleReq EXCEPT !.pc = IF lock_id # 0 THEN "lockcheck" ELSE "slotcheck",
                             !.lock_id = lock_id]]
        /\ concurrent' = NotConcurrentWith(r) \cup
                           {{r, q} : q \in {x \in Reqs : x # r /\ InTx(x)}}
        /\ UNCHANGED <<bookings, booking_locks, slots, resp>>

\* the lock checks without the comparison of quantities
LockCheckResultNoQuantity(rows, expectedSessionId, slot_id, visitor_count) ==
  IF expectedSessionId = "none" THEN <<400, "session_required">>
  ELSE IF rows = {} THEN <<409, "lock_expired_or_invalid">>
  ELSE LET lock == CHOOSE l \in rows : TRUE
       IN IF lock.reserved_by_session_id # expectedSessionId
          THEN <<403, "session_mismatch">>
          ELSE IF lock.slot_id # slot_id THEN <<400, "slot_mismatch">>
          ELSE <<0, "ok">>

\* the checks on the presented lock, in the handler's order
LockCheckResult(rows, expectedSessionId, slot_id, visitor_count) ==
  IF expectedSessionId = "none" THEN <<400, "session_required">>
  ELSE IF rows = {} THEN <<409, "lock_expired_or_invalid">>
  ELSE LET lock == CHOOSE l \in rows : TRUE
       IN IF lock.reserved_by_session_id # expectedSessionId
          THEN <<403, "session_mismatch">>
          ELSE IF lock.slot_id # slot_id THEN <<400, "slot_mismatch">>
          ELSE IF lock.reserved_capacity # visitor_count
               THEN <<400, "quantity_mismatch">>
               ELSE <<0, "ok">>

\* SELECT ... FROM booking_locks WHERE id = $1 AND lock_expires_at > now()
CreateLockCheck(r, session_id, slot_id, visitor_count) ==
  /\ Ready
  /\ UNCHANGED <<queue_jobs, sweep, server, backoff, scan>>
  /\ req[r].pc = "lockcheck"
  /\ UNCHANGED <<now, nextLockId, vreq>>
  /\ LET rows == {l \in booking_locks :
                    l.id = req[r].lock_id /\ l.lock_expires_at > now}
         result == LockCheckResult(rows, session_id, slot_id, visitor_count)
     IN IF result[2] = "ok"
        THEN /\ req' = [req EXCEPT ![r].pc = "slotcheck",
                                   ![r].session_id = session_id,
                                   ![r].slot_id = slot_id,
                                   ![r].visitor_count = visitor_count,
                                   ![r].lock = CHOOSE l \in rows : TRUE]
             /\ UNCHANGED <<bookings, booking_locks, slots, resp, concurrent>>
        ELSE Rollback(r, result[1], result[2])

\* a slot check that compares the amount with remaining_capacity
SlotCheckResultRemaining(slot, visitor_count) ==
  IF ~slot.is_available THEN <<409, "slot_unavailable">>
  ELSE IF slot.remaining_capacity < visitor_count
       THEN <<409, "insufficient_capacity">>
       ELSE <<0, "ok">>

\* the checks on the slot row read FOR UPDATE
SlotCheckResult(slot, visitor_count) ==
  IF ~slot.is_available THEN <<409, "slot_unavailable">>
  ELSE IF slot.available_capacity < ToNumber(visitor_count)
       THEN <<409, "insufficient_capacity">>
       ELSE <<0, "ok">>

\* SELECT available_capacity, is_available FROM slots WHERE id = $1 FOR UPDATE;
\* after a lock check the body is the one that check read
CreateSlotCheck(r, slot_id, visitor_count) ==
  /\ Ready
  /\ UNCHANGED <<queue_jobs, sweep, server, backoff, scan>>
  /\ req[r].pc = "slotcheck"
  /\ req[r].lock_id # 0 =>
       (slot_id = req[r].slot_id /\ visitor_count = req[r].visitor_count)
  /\ UNCHANGED <<now, nextLockId, vreq>>
  /\ \/ /\ slot_id \notin Slots
        /\ Rollback(r, 404, "slot_not_found")
     \/ /\ slot_id \in Slots
        /\ SlotRowHolders(slot_id) = {}
        /\ LET result == SlotCheckResult(slots[slot_id], visitor_count)
           IN IF result[2] = "ok"
              THEN /\ req' = [req EXCEPT ![r].pc = "insert",
                                ![r].slot_id = slot_id,
                                ![r].visitor_count = visitor_count,
                                ![r].seen_available = slots[slot_id].available_capacity]
                   /\ UNCHANGED <<bookings, booking_locks, slots, resp, concurrent>>
              ELSE Rollback(r, result[1], result[2])

\* an INSERT that is visible to everyone at once, as without BEGIN
TxInsertAutocommit(r, row) ==
  /\ req' = [req EXCEPT ![r].row = row, ![r].wrote = TRUE, ![r].pc = "commit"]
  /\ bookings' = bookings \cup {row}
  /\ UNCHANGED <<booking_locks, slots, resp, concurrent>>

\* INSERT INTO bookings inside the open transaction
TxInsert(r, row) ==
  /\ req' = [req EXCEPT ![r].row = row, ![r].wrote = TRUE, ![r].pc = "commit"]
  /\ UNCHANGED <<bookings, booking_locks, slots, resp, concurrent>>

\* CREATE TABLE bookings: CHECK (visitor_count > 0), (adult_count >= 0),
\* (child_count >= 0)
BookingChecks(row) ==
  row.visitor_count > 0 /\ row.adult_count >= 0 /\ row.child_count >= 0

\* offer check, head-count check, INSERT; -1 is an undefined count.  The
\* head-count test is !== on the body's values; the INSERT converts them to
\* the integer columns and throws when a CHECK fails.
CreateInsert(r, offer, adult_count, child_count) ==
  /\ Ready
  /\ UNCHANGED <<queue_jobs, sweep, server, backoff, scan>>
  /\ req[r].pc = "insert"
  /\ UNCHANGED <<now, nextLockId, vreq>>
  /\ LET finalAdultCount == IF adult_count # -1 THEN adult_count ELSE req[r].visitor_count
         finalChildCount == IF child_count # -1 THEN child_count ELSE 0
         calculatedVisitorCount == JsPlus(finalAdultCount, finalChildCount)
         row == [id |-> r, slot_id |-> req[r].slot_id,
                 visitor_count |-> ToNumber(req[r].visitor_count),
                 adult_count |-> ToNumber(finalAdultCount),
                 child_count |-> ToNumber(finalChildCount),
                 status |-> "confirmed", payment_status |-> "unpaid",
                 qr_scanned |-> FALSE, qr_scanned_by_user_id |-> 0]
     IN \/ /\ offer = "missing"
           /\ Rollback(r, 404, "offer_not_found")
        \/ /\ offer = "other_service"
           /\ Rollback(r, 400, "offer_wrong_service")
        \/ /\ offer \in {"none", "ok"}
           /\ calculatedVisitorCount # req[r].visitor_count
           /\ Rollback(r, 400, "headcount_mismatch")
        \/ /\ offer \in {"none", "ok"}
           /\ calculatedVisitorCount = req[r].visitor_count
           /\ IF BookingChecks(row) THEN TxInsert(r, row) ELSE Rollback(r, 500, "error")

\* a commit whose DELETE of the lock is not part of the transaction's result
CreateCommitKeepLock(r) ==
  /\ Ready
  /\ UNCHANGED <<queue_jobs, sweep, server, backoff, scan>>
  /\ req[r].pc = "commit"
  /\ bookings' = bookings \cup {req[r].row}
  /\ req' = [req EXCEPT ![r].pc = "done", ![r].row = NoRow]
  /\ resp' = [Response("create", 201) EXCEPT
               !.client = Release(Query(Query(NewClient, "BEGIN"), "COMMIT"))]
  /\ UNCHANGED <<now, slots, booking_locks, nextLockId, vreq, concurrent>>

\* DELETE FROM booking_locks WHERE id = $1 (when a lock_id was given; a row
\* already deleted by a committed statement is simply not found), COMMIT, 201
\* and client.release() in finally.
\* deleted records whether the DELETE found the row.
CreateCommit(r) ==
  /\ Ready
  /\ UNCHANGED <<queue_jobs, sweep, server, backoff, scan>>
  /\ req[r].pc = "commit"
  /\ bookings' = bookings \cup {req[r].row}
  /\ booking_locks' = IF req[r].lock_id # 0
                      THEN {l \in booking_locks : l.id # req[r].lock_id}
                      ELSE booking_locks
  /\ req' = [req EXCEPT ![r].pc = "done", ![r].row = NoRow,
                        ![r].deleted = \E l \in booking_locks : l.id = req[r].lock_id]
  /\ resp' = [Response("create", 201) EXCEPT
               !.client = Release(Query(Query(NewClient, "BEGIN"), "COMMIT"))]
  /\ UNCHANGED <<now, slots, nextLockId, vreq, concurrent>>

\* catch (error): ROLLBACK and 500, from any statement of the transaction
CreateException(r) ==
  /\ Ready
  /\ UNCHANGED <<queue_jobs, sweep, server, backoff, scan>>
  /\ InTx(r)
  /\ Rollback(r, 500, "error")
  /\ UNCHANGED <<now, nextLockId, vreq>>

\* an invoice callback whose failure reaches the booking: the row is taken
\* back and the caller is answered 500
PostCommitInvoiceThrowing(r, success) ==
  /\ req[r].pc = "done"
  /\ req[r].invoice = "none"
  /\ req' = [req EXCEPT ![r].invoice = IF success THEN "created" ELSE "failed"]
  /\ bookings' = IF success THEN bookings ELSE {b \in bookings : b.id # r}
  /\ resp' = IF success THEN resp ELSE Response("create", 500)
  /\ UNCHANGED <<now, slots, booking_locks, nextLockId, concurrent, vreq>>
  /\ UNCHANGED <<queue_jobs, sweep, server, backoff, scan>>

\* the process.nextTick callback after COMMIT (customer_phone is required,
\* so it is always scheduled): one call of generateReceipt whose failure is
\* logged; success is the call's result
PostCommitInvoice(r, success) ==
  /\ req[r].pc = "done"
  /\ req[r].invoice = "none"
  /\ req' = [req EXCEPT ![r].invoice = IF success THEN "created" ELSE "failed"]
  /\ UNCHANGED <<now, slots, booking_locks, nextLockId, bookings, concurrent, vreq, resp>>
  /\ UNCHANGED <<queue_jobs, sweep, server, backoff, scan>>

\* the second process.nextTick callback after COMMIT: the ticket PDF is
\* generated and sent by WhatsApp and by e-mail; pdf, whatsapp and email tell
\* whether each step succeeds (an e-mail step without customer_email or SMTP
\* settings counts as not sent).  Every failure is logged and nothing else.
PostCommitTicket(r, pdf, whatsapp, email) ==
  /\ req[r].pc = "done"
  /\ req[r].ticket = "none"
  /\ req' = [req EXCEPT ![r].ticket =
       IF ~pdf THEN "no_pdf"
       ELSE IF whatsapp /\ email THEN "sent"
       ELSE IF whatsapp \/ email THEN "partly_sent"
       ELSE "not_sent"]
  /\ UNCHANGED <<now, slots, booking_locks, nextLockId, bookings, concurrent, vreq, resp>>
  /\ UNCHANGED <<queue_jobs, sweep, server, backoff, scan>>

\* ---------------------------------------------------- receipt retry queue
\* In this part time advances in steps just longer than the stale threshold
\* of the sweep, so a job marked before a step is stale after it.
QueueTickSeconds == StaleThreshold + 1

lockVars == <<slots, booking_locks, nextLockId, bookings, req, concurrent, vreq, resp>>

\* what the worker can read of a job's booking: no row, zoho_invoice_id set,
\* payment_status other than 'paid', or paid without an invoice
BookingStates == {"missing", "invoiced", "unpaid", "paid"}

\* A queue_jobs row as its creator leaves it: the table's defaults and
\* payload.attempt 0; started_at -1 is NULL.  booking is the state of the
\* booking of payload.booking_id.  calls counts the invocations of
\* generateReceipt for the job and succeeded tells whether one of them
\* succeeded; they are not columns.
NewJob(booking_id, booking) ==
  [status |-> "pending", attempts |-> 0, payload_attempt |-> 0, started_at |-> -1,
   booking_id |-> booking_id, booking |-> booking, calls |-> 0, succeeded |-> FALSE]

\* a zoho_receipt job is inserted, each for another booking; created_at is
\* the order of insertion
Enqueue(booking) ==
  /\ Len(queue_jobs) < MaxJobs
  /\ queue_jobs' = Append(queue_jobs, NewJob(Len(queue_jobs) + 1, booking))
  /\ UNCHANGED <<now, sweep>>
  /\ UNCHANGED lockVars
  /\ UNCHANGED <<server, backoff, scan>>

QueueTick ==
  /\ now + QueueTickSeconds <= MaxQueueTicks * QueueTickSeconds
  /\ now' = now + QueueTickSeconds
  /\ UNCHANGED <<queue_jobs, sweep, server, backoff, scan>>
  /\ UNCHANGED lockVars
  /\ UNCHANGED <<server, backoff, scan>>

\* a selection without the test of started_at
EligibleAtOnce ==
  {j \in 1..Len(queue_jobs) : queue_jobs[j].status = "pending"}

\* WHERE status = 'pending'
\*   AND (started_at IS NULL OR started_at < now() - interval '5 minutes')
Eligible ==
  {j \in 1..Len(queue_jobs) :
     /\ queue_jobs[j].status = "pending"
     /\ \/ queue_jobs[j].started_at = -1
        \/ queue_jobs[j].started_at < now - StaleThreshold}

\* ORDER BY created_at ASC LIMIT 10
Selected == {j \in Eligible : Cardinality({k \in Eligible : k < j}) < SweepLimit}

\* sweep w holds no job
Idle(w) == \A j \in Jobs : sweep[w][j].pc = "none"

\* the sweep's SELECT; a sweep that finds no job returns at once
processZohoReceiptJobs(w) ==
  /\ Idle(w)
  /\ Selected # {}
  /\ sweep' = [sweep EXCEPT ![w] =
       [j \in Jobs |->
          IF j \in Selected
          THEN [pc |-> "mark", attempt |-> queue_jobs[j].payload_attempt]
          ELSE NoWork]]
  /\ UNCHANGED <<now, queue_jobs>>
  /\ UNCHANGED lockVars
  /\ UNCHANGED <<server, backoff, scan>>

\* UPDATE queue_jobs SET status = 'processing', started_at = now() WHERE id = $1
MarkProcessing(w, j) ==
  /\ sweep[w][j].pc = "mark"
  /\ queue_jobs' = [queue_jobs EXCEPT ![j].status = "processing", ![j].started_at = now]
  /\ sweep' = [sweep EXCEPT ![w][j].pc = "process"]
  /\ UNCHANGED now
  /\ UNCHANGED lockVars
  /\ UNCHANGED <<server, backoff, scan>>

\* a failure branch that gives up one attempt later
FailureUpdateLate(job, attempt) ==
  LET nextAttempt == attempt + 1
  IN IF nextAttempt > MAX_RETRIES
     THEN [job EXCEPT !.status = "failed"]
     ELSE [job EXCEPT !.status = "pending", !.attempts = nextAttempt,
                      !.payload_attempt = nextAttempt]

\* the catch block of processReceiptJob: the row after its UPDATE
FailureUpdate(job, attempt) ==
  LET nextAttempt == attempt + 1
  IN IF nextAttempt >= MAX_RETRIES
     THEN [job EXCEPT !.status = "failed"]
     ELSE [job EXCEPT !.status = "pending", !.attempts = nextAttempt,
                      !.payload_attempt = nextAttempt]

\* a worker that calls generateReceipt before it looks at zoho_invoice_id
JobOutcomeCallFirst(job, attempt, success) ==
  LET called == [job EXCEPT !.calls = @ + 1]
  IN CASE job.booking = "missing" -> FailureUpdate(job, attempt)
       [] job.booking = "invoiced" -> [called EXCEPT !.status = "completed"]
       [] job.booking = "unpaid" -> [job EXCEPT !.status = "failed"]
       [] job.booking = "paid" ->
            IF success
            THEN [called EXCEPT !.status = "completed", !.succeeded = TRUE]
            ELSE FailureUpdate(called, attempt)

\* a worker that treats a booking that is not paid as a failed call
JobOutcomeUnpaidRetried(job, attempt, success) ==
  LET called == [job EXCEPT !.calls = @ + 1]
  IN CASE job.booking = "missing" -> FailureUpdate(job, attempt)
       [] job.booking = "invoiced" -> [job EXCEPT !.status = "completed"]
       [] job.booking = "unpaid" -> FailureUpdate(job, attempt)
       [] job.booking = "paid" ->
            IF success
            THEN [called EXCEPT !.status = "completed", !.succeeded = TRUE]
            ELSE FailureUpdate(called, attempt)

\* the row of a job after processReceiptJob, by the branch taken: booking
\* not found (throws), invoice already there, booking not paid, and the call
\* of generateReceipt with its result
JobOutcome(job, attempt, success) ==
  LET called == [job EXCEPT !.calls = @ + 1]
  IN CASE job.booking = "missing" -> FailureUpdate(job, attempt)
       [] job.booking = "invoiced" -> [job EXCEPT !.status = "completed"]
       [] job.booking = "unpaid" -> [job EXCEPT !.status = "failed"]
       [] job.booking = "paid" ->
            IF success
            THEN [called EXCEPT !.status = "completed", !.succeeded = TRUE]
            ELSE FailureUpdate(called, attempt)

\* a sweep that gives up its other jobs when one job does not complete
processReceiptJobAborting(w, j, success) ==
  /\ sweep[w][j].pc = "process"
  /\ queue_jobs' = [queue_jobs EXCEPT ![j] =
       JobOutcome(queue_jobs[j], sweep[w][j].attempt, success)]
  /\ sweep' = IF queue_jobs'[j].status = "completed"
              THEN [sweep EXCEPT ![w][j] = NoWork]
              ELSE [sweep EXCEPT ![w] = [k \in Jobs |-> NoWork]]
  /\ UNCHANGED now
  /\ UNCHANGED lockVars
  /\ UNCHANGED <<server, backoff, scan>>

\* processReceiptJob(job) with the job selected by sweep w; success is the
\* result of generateReceipt
processReceiptJob(w, j, success) ==
  /\ sweep[w][j].pc = "process"
  /\ queue_jobs' = [queue_jobs EXCEPT ![j] =
       JobOutcome(queue_jobs[j], sweep[w][j].attempt, success)]
  /\ sweep' = [sweep EXCEPT ![w][j] = NoWork]
  /\ UNCHANGED now
  /\ UNCHANGED lockVars
  /\ UNCHANGED <<server, backoff, scan>>

\* the server process stops while a sweep is at work and starts again; what
\* its sweeps held is lost
Crash ==
  /\ \E w \in Sweeps : ~Idle(w)
  /\ sweep' = [w \in Sweeps |-> [j \in Jobs |-> NoWork]]
  /\ UNCHANGED <<now, queue_jobs>>
  /\ UNCHANGED lockVars
  /\ UNCHANGED <<server, backoff, scan>>

\* ---------------------------------------------- POST /bookings/validate-qr
\* what the handler finds of the caller: no req.user, no users row, a role
\* that may not scan, or a cashier, receptionist or tenant admin
ScanUsers == {"none", "unknown", "customer", "cashier"}

\* UPDATE bookings SET qr_scanned = true, ..., status = 'checked_in' WHERE id = $2
MarkScanned(rows, userId, booking_id) ==
  {IF b.id = booking_id
   THEN [b EXCEPT !.qr_scanned = TRUE, !.qr_scanned_by_user_id = userId,
                  !.status = "checked_in"]
   ELSE b : b \in rows}

\* booking_id and req.user tests, the users lookup and the role test;
\* booking_id 0 is a body without booking_id
ValidateQrBegin(c, booking_id, user) ==
  /\ Ready
  /\ scan[c].pc = "idle"
  /\ IF booking_id = 0 THEN resp' = [Response("validate-qr", 400) EXCEPT !.error = "booking_id_required"]
     ELSE IF user = "none" THEN resp' = [Response("validate-qr", 401) EXCEPT !.error = "authentication_required"]
     ELSE IF user = "unknown" THEN resp' = [Response("validate-qr", 404) EXCEPT !.error = "user_not_found"]
     ELSE IF user = "customer" THEN resp' = [Response("validate-qr", 403) EXCEPT !.error = "wrong_role"]
     ELSE resp' = resp
  /\ scan' = IF booking_id # 0 /\ user = "cashier"
             THEN [scan EXCEPT ![c] = [pc |-> "select", booking_id |-> booking_id]]
             ELSE scan
  /\ UNCHANGED <<now, slots, booking_locks, nextLockId, bookings, req, concurrent, vreq>>
  /\ UNCHANGED <<queue_jobs, sweep, server, backoff>>

\* SELECT ... FROM bookings b ... WHERE b.id = $1 and the tests on the row
\* read; sameTenant is the comparison of the booking's tenant with the user's
ValidateQrSelect(c, sameTenant) ==
  /\ Ready
  /\ scan[c].pc = "select"
  /\ LET rows == {b \in bookings : b.id = scan[c].booking_id}
     IN IF rows = {}
        THEN /\ resp' = [Response("validate-qr", 404) EXCEPT !.error = "booking_not_found"]
             /\ scan' = [scan EXCEPT ![c] = IdleScan]
        ELSE IF ~sameTenant
        THEN /\ resp' = [Response("validate-qr", 403) EXCEPT !.error = "other_tenant"]
             /\ scan' = [scan EXCEPT ![c] = IdleScan]
        ELSE IF \E b \in rows : b.qr_scanned
        THEN /\ resp' = [Response("validate-qr", 409) EXCEPT !.error = "already_scanned"]
             /\ scan' = [scan EXCEPT ![c] = IdleScan]
        ELSE /\ resp' = resp
             /\ scan' = [scan EXCEPT ![c].pc = "update"]
  /\ UNCHANGED <<now, slots, booking_locks, nextLockId, bookings, req, concurrent, vreq>>
  /\ UNCHANGED <<queue_jobs, sweep, server, backoff>>

\* the UPDATE and the answer success: true
ValidateQrUpdate(c) ==
  /\ Ready
  /\ scan[c].pc = "update"
  /\ bookings' = MarkScanned(bookings, c, scan[c].booking_id)
  /\ scan' = [scan EXCEPT ![c].pc = "done"]
  /\ resp' = Response("validate-qr", 200)
  /\ UNCHANGED <<now, slots, booking_locks, nextLockId, req, concurrent, vreq>>
  /\ UNCHANGED <<queue_jobs, sweep, server, backoff>>

\* catch (error): a query throws and the caller is answered 500
ValidateQrException(c) ==
  /\ Ready
  /\ scan[c].pc \in {"select", "update"}
  /\ scan' = [scan EXCEPT ![c] = IdleScan]
  /\ resp' = [Response("validate-qr", 500) EXCEPT !.error = "error"]
  /\ UNCHANGED <<now, slots, booking_locks, nextLockId, bookings, req, concurrent, vreq>>
  /\ UNCHANGED <<queue_jobs, sweep, server, backoff>>

\* ------------------------------------------------------------------ system
\* the lock handlers and the cleanup job
NextLocks ==
  \/ Send
  \/ Tick
  \/ \E s \in 0..(NSlots + 1), sid \in Sessions, n \in 0..MaxCapacity :
       AcquireLock(s, sid, n)
  \/ \E l \in LockIds, sid \in SessionIds : ValidateLock(l, sid)
  \/ ValidateLockInfo
  \/ \E l \in LockIds, sid \in SessionIds : ReleaseLock(l, sid)
  \/ cleanupExpiredLocks

SpecLocks == Init /\ [][NextLocks]_vars

\* the retry queue: job creation, overlapping sweeps, crashes
NextQueue ==
  \/ \E b \in BookingStates : Enqueue(b)
  \/ QueueTick
  \/ \E w \in Sweeps : processZohoReceiptJobs(w)
  \/ \E w \in Sweeps, j \in Jobs : MarkProcessing(w, j)
  \/ \E w \in Sweeps, j \in Jobs, success \in BOOLEAN : processReceiptJob(w, j, success)
  \/ Crash

\* the queue is independent of the slots: one slot state suffices
InitQueue == Init /\ slots = [s \in Slots |-> NewSlot(MaxCapacity, TRUE)]

SpecQueue == InitQueue /\ [][NextQueue]_vars

\* the booking transaction with its post-commit callbacks
NextInvoice ==
  \/ Send
  \/ \E r \in Reqs, p \in Prechecks, l \in 0..MaxLocks : CreateBegin(r, p, l)
  \/ \E r \in Reqs, sid \in SessionIds, s \in SlotIds, n \in 1..MaxCapacity :
       CreateLockCheck(r, sid, s, n)
  \/ \E r \in Reqs, s \in SlotIds, n \in 1..MaxCapacity : CreateSlotCheck(r, s, n)
  \/ \E r \in Reqs, offer \in {"none", "ok", "missing", "other_service"},
        a \in {-1, 1}, c \in {-1, 1} : CreateInsert(r, offer, a, c)
  \/ \E r \in Reqs : CreateCommit(r)
  \/ \E r \in Reqs : CreateException(r)
  \/ \E r \in Reqs, success \in BOOLEAN : PostCommitInvoice(r, success)
  \/ \E r \in Reqs, pdf \in BOOLEAN, whatsapp \in BOOLEAN, email \in BOOLEAN :
       PostCommitTicket(r, pdf, whatsapp, email)

SpecInvoice == Init /\ [][NextInvoice]_vars

\* start-up, then lock acquisition under the cleanup timer
NextServer ==
  \/ Send
  \/ \E result \in {"ok", "fail", "throw"} : TestConnection(result)
  \/ Listen
  \/ IntervalElapses
  \/ \E throws \in BOOLEAN : ReaperCycle(throws)
  \/ \E s \in 0..(NSlots + 1), sid \in Sessions, n \in 0..MaxCapacity :
       ServeAcquireLock(s, sid, n)

SpecServer == Init /\ [][NextServer]_vars

\* calculateDelay over attempt numbers
NextDelay == \E attempt \in 0..MaxAttempt : ComputeDelay(attempt)

SpecDelay == InitQueue /\ [][NextDelay]_vars

\* the counts a body can carry: numbers and strings of digits
HeadCounts == {0, 1, 2, JsString(1), JsString(2), JsString(10), JsString(LargeCapacity)}

\* slots large enough for a two-digit visitor_count
InitHeadCount ==
  /\ slots = [s \in Slots |-> NewSlot(LargeCapacity, TRUE)]
  /\ InitIdle

\* the booking transaction over bodies with numbers and strings
NextHeadCount ==
  \/ Send
  \/ \E r \in Reqs, p \in Prechecks : CreateBegin(r, p, 0)
  \/ \E r \in Reqs, s \in SlotIds, n \in HeadCounts : CreateSlotCheck(r, s, n)
  \/ \E r \in Reqs, offer \in {"none", "ok", "missing", "other_service"},
        a \in HeadCounts \cup {-1}, c \in HeadCounts \cup {-1} : CreateInsert(r, offer, a, c)
  \/ \E r \in Reqs : CreateCommit(r)
  \/ \E r \in Reqs : CreateException(r)

SpecHeadCount == InitHeadCount /\ [][NextHeadCount]_vars

\* the lock cleanup started and stopped at will, with locks to reap
NextReaper ==
  \/ Send
  \/ CallStartLockCleanup
  \/ CallStopLockCleanup
  \/ IntervalElapses
  \/ \E throws \in BOOLEAN : ReaperCycle(throws)
  \/ \E s \in Slots, sid \in Sessions, n \in 1..MaxCapacity : AcquireLock(s, sid, n)

SpecReaper == InitQueue /\ [][NextReaper]_vars

\* bookings are created without lock and their QR codes are scanned
NextQr ==
  \/ Send
  \/ \E r \in Reqs, p \in Prechecks : CreateBegin(r, p, 0)
  \/ \E r \in Reqs, s \in SlotIds, n \in 1..MaxCapacity : CreateSlotCheck(r, s, n)
  \/ \E r \in Reqs, offer \in {"none", "ok", "missing", "other_service"} :
       CreateInsert(r, offer, -1, -1)
  \/ \E r \in Reqs : CreateCommit(r)
  \/ \E c \in Cashiers, b \in 0..MaxReqs, u \in ScanUsers : ValidateQrBegin(c, b, u)
  \/ \E c \in Cashiers, sameTenant \in BOOLEAN : ValidateQrSelect(c, sameTenant)
  \/ \E c \in Cashiers : ValidateQrUpdate(c)
  \/ \E c \in Cashiers : ValidateQrException(c)

SpecQr == InitQueue /\ [][NextQr]_vars

\* the booking transaction among lock acquisition, release and cleanup
Next ==
  \/ Send
  \/ Tick
  \/ \E s \in 0..(NSlots + 1), sid \in Sessions, n \in 0..MaxCapacity :
       AcquireLock(s, sid, n)
  \/ \E l \in LockIds, sid \in SessionIds : ReleaseLock(l, sid)
  \/ cleanupExpiredLocks
  \/ \E r \in Reqs, p \in Prechecks, l \in 0..MaxLocks : CreateBegin(r, p, l)
  \/ \E r \in Reqs, sid \in SessionIds, s \in SlotIds, n \in 1..MaxCapacity :
       CreateLockCheck(r, sid, s, n)
  \/ \E r \in Reqs, s \in SlotIds, n \in 1..MaxCapacity : CreateSlotCheck(r, s, n)
  \/ \E r \in Reqs, offer \in {"none", "ok", "missing", "other_service"},
        a \in {-1, 1}, c \in {-1, 1} : CreateInsert(r, offer, a, c)
  \/ \E r \in Reqs : CreateCommit(r)
  \/ \E r \in Reqs : CreateException(r)

Spec == Init /\ [][Next]_vars

\* ------------------------------------------------------------- properties
ConfirmedBookings(s) == {b \in bookings : b.slot_id = s /\ b.status = "confirmed"}

UnexpiredLocks(s) == {l \in booking_locks : l.slot_id = s /\ l.lock_expires_at > now}

\* the step in which client r's transaction commits
Commits(r) == req[r].pc = "commit" /\ req'[r].pc = "done"

\* C1: capacity conservation.  For every slot, in every reachable state, the
\* visitor counts of its confirmed bookings plus the reserved_capacity of its
\* unexpired locks do not exceed its total_capacity.
CapacityConservation ==
  \A s \in Slots :
    SumVisitors(ConfirmedBookings(s)) + SumCapacity(UnexpiredLocks(s))
      <= slots[s].total_capacity

\* C2: no double-confirm.  Two createBooking calls without locks that overlap
\* in time on the same slot, and whose amounts together exceed the
\* available_capacity either of them read, never both commit a booking.
NoDoubleConfirm ==
  \A r1, r2 \in Reqs :
    ( /\ r1 # r2
      /\ {r1, r2} \in concurrent
      /\ req[r1].lock_id = 0 /\ req[r2].lock_id = 0
      /\ req[r1].pc = "done" /\ req[r2].pc = "done"
      /\ req[r1].slot_id = req[r2].slot_id )
    => req[r1].visitor_count + req[r2].visitor_count
         <= Max(req[r1].seen_available, req[r2].seen_available)

\* C3: the commit of a createBooking for amount N lowers the slot's
\* remaining_capacity by N and raises its booked_count by N.
ConfirmAtCommit ==
  [][\A r \in Reqs :
       Commits(r) =>
         LET s == req[r].slot_id
             n == req[r].visitor_count
         IN /\ slots'[s].remaining_capacity = slots[s].remaining_capacity - n
            /\ slots'[s].booked_count = slots[s].booked_count + n]_vars

\* C4: a cleanup cycle removes every lock whose expiry has passed and raises
\* each slot's available_capacity by the reserved_capacity of the slot's
\* locks it removed.
ReaperReturnsCapacity ==
  [][(resp'.op = "cleanup" /\ resp'.status = 0) =>
       /\ \A l \in booking_locks' : l.lock_expires_at > now
       /\ \A s \in Slots :
            slots'[s].available_capacity =
              slots[s].available_capacity
                + SumCapacity({l \in ExpiredLocks : l.slot_id = s})]_vars

\* C5: the validate handler answers valid (200) only for a lock that exists
\* under the asked id, is owned by the asking session and whose expiry was
\* strictly later than the time at which validity was evaluated.
ValidOnlyIfLive ==
  [][(vreq.pc = "info" /\ resp'.op = "validate" /\ resp'.status = 200) =>
       \E l \in booking_locks :
         /\ l.id = vreq.lock_id
         /\ l.reserved_by_session_id = vreq.session_id
         /\ l.lock_expires_at > vreq.at]_vars

\* C5 witness: a lock has been reported valid
ValidReported ==
  /\ resp.op = "validate"
  /\ resp.status = 200
  /\ \E l \in booking_locks : l.id = resp.lock_id

\* the rows of booking_locks with the id presented by client r
PresentedLock(r) == {l \in booking_locks : l.id = req[r].lock_id}

\* C6: every step of a createBooking call other than its commit, and so
\* every rejection (a create response that is not 201), leaves bookings,
\* booking_locks and slots as they were, and no booking row exists that
\* belongs to a call which did not commit.
RejectedCreateChangesNothing ==
  [][( \/ resp'.op = "create" /\ resp'.status # 201
       \/ \E r \in Reqs : req'[r] # req[r] /\ req'[r].pc # "done" )
     => /\ UNCHANGED <<bookings, booking_locks, slots>>
        /\ \A b \in bookings' : req'[b.id].pc = "done"]_vars

\* C6 witness: a call was rejected by an exception after its INSERT had run,
\* and there is no booking
RejectedAfterInsert ==
  /\ resp.op = "create"
  /\ resp.status = 500
  /\ resp.wrote
  /\ bookings = {}

\* C7: the lock check of a createBooking that carries a lock id rejects the
\* call, writing nothing, with session_required when the caller has no
\* session, else lock_expired_or_invalid when no unexpired lock has that id,
\* else session_mismatch when the lock's session is not the caller's, else
\* slot_mismatch when its slot is not the requested one, else
\* quantity_mismatch when its reserved_capacity is not the visitor count;
\* the call goes on only with a lock that passes all of these.
LockErrorsSurfaced ==
  [][\A r \in Reqs, sid \in SessionIds, s \in SlotIds, n \in 1..MaxCapacity :
       CreateLockCheck(r, sid, s, n) =>
         LET live == {l \in PresentedLock(r) : l.lock_expires_at > now}
             lock == CHOOSE l \in live : TRUE
             expected ==
               IF sid = "none" THEN "session_required"
               ELSE IF live = {} THEN "lock_expired_or_invalid"
               ELSE IF lock.reserved_by_session_id # sid THEN "session_mismatch"
               ELSE IF lock.slot_id # s THEN "slot_mismatch"
               ELSE IF lock.reserved_capacity # n THEN "quantity_mismatch"
               ELSE "ok"
         IN IF expected = "ok"
            THEN req'[r].pc = "slotcheck" /\ req'[r].lock = lock
            ELSE /\ resp'.op = "create" /\ resp'.error = expected
                 /\ resp'.status \in {400, 403, 409}
                 /\ req'[r].pc = "idle"
                 /\ UNCHANGED <<bookings, booking_locks, slots>>]_vars

\* C7 witness: a call was rejected for its quantity while the lock it
\* presented exists unexpired
QuantityMismatchReported ==
  /\ resp.op = "create"
  /\ resp.error = "quantity_mismatch"
  /\ \E l \in booking_locks : l.lock_expires_at > now

\* C8: a createBooking transaction commits only while it alone holds the
\* slot row and the slot is available with available_capacity at least the
\* requested amount, with or without a lock id.
CommitOnlyWithCapacity ==
  [][\A r \in Reqs :
       Commits(r) =>
         LET s == req[r].slot_id
         IN /\ SlotRowHolders(s) = {r}
            /\ slots[s].is_available
            /\ slots[s].available_capacity >= req[r].visitor_count
            /\ req[r].seen_available = slots[s].available_capacity]_vars

\* C8 witness: a booking presented with a valid lock has been committed
CommittedWithLock ==
  \E r \in Reqs :
    /\ req[r].pc = "done"
    /\ req[r].lock_id # 0
    /\ req[r].lock.id = req[r].lock_id
    /\ \E b \in bookings : b.id = r

\* C9: a release deletes only rows matching both the id and the session; a
\* release by a session that does not own the lock with that id leaves
\* booking_locks and slots unchanged and answers 404.
ReleaseOnlyByOwner ==
  [][\A l \in LockIds, sid \in Sessions :
       ReleaseLock(l, sid) =>
         /\ \A k \in booking_locks \ booking_locks' :
              k.id = l /\ k.reserved_by_session_id = sid
         /\ (\E k \in booking_locks : k.id = l /\ k.reserved_by_session_id # sid)
              => /\ UNCHANGED <<booking_locks, slots>>
                 /\ resp'.status = 404]_vars

\* C9 witness: a release was answered 404 although a lock with that id exists
ForeignReleaseRefused ==
  /\ resp.op = "release"
  /\ resp.status = 404
  /\ \E k \in booking_locks : k.id = resp.lock_id

\* C10: a release answered 200 sets the slot's available_capacity to
\* min(total_capacity, available_capacity + reserved_capacity of the lock).
ReleaseReturnsCapacity ==
  [][\A l \in LockIds, sid \in Sessions :
       (ReleaseLock(l, sid) /\ resp'.status = 200) =>
         \A k \in ReleaseRows(l, sid) :
           slots'[k.slot_id].available_capacity =
             Min(slots[k.slot_id].total_capacity,
                 slots[k.slot_id].available_capacity + k.reserved_capacity)]_vars

\* the rows of booking_locks with id l
LockRows(l) == {k \in booking_locks : k.id = l}

\* lock id l has been handed out
Issued(l) == l < nextLockId

\* C11: a release of a lock that was issued and whose row no longer exists
\* (deleted by the cleanup job, by an earlier release or by the booking that
\* consumed it) answers 404 and leaves booking_locks and slots unchanged.
ReleaseOfGoneLock ==
  [][\A l \in LockIds, sid \in Sessions :
       (ReleaseLock(l, sid) /\ Issued(l) /\ LockRows(l) = {}) =>
         /\ resp'.op = "release" /\ resp'.status = 404
         /\ UNCHANGED <<booking_locks, slots>>]_vars

\* C11 witness: a release was answered 404 for the lock that a committed
\* booking had consumed
ReleaseAfterConsumption ==
  /\ resp.op = "release"
  /\ resp.status = 404
  /\ LockRows(resp.lock_id) = {}
  /\ \E r \in Reqs :
       req[r].pc = "done" /\ req[r].deleted /\ req[r].lock_id = resp.lock_id

\* C12: of a release and a cleanup cycle that go for the same lock, one
\* deletes the row and the other finds nothing: a release answered 200
\* removed the row of that id, a cycle reports exactly the rows it removed,
\* a release answered 404 and a cycle reporting 0 removed none, a row that is
\* gone never comes back, and neither raises a slot's available_capacity by
\* more than the reserved_capacity of the rows it removed.
FirstDeleterWins ==
  [][LET removed == booking_locks \ booking_locks'
     IN /\ (resp'.op = "release" /\ resp'.status = 200) =>
             /\ Cardinality(removed) = 1
             /\ \A k \in removed : k.id = resp'.lock_id
        /\ (resp'.op = "release" /\ resp'.status = 404) => removed = {}
        /\ (resp'.op = "cleanup" /\ resp'.status = 0) =>
             /\ resp'.count = Cardinality(removed)
             /\ \A k \in removed : k.lock_expires_at <= now
        /\ \A l \in LockIds :
             (Issued(l) /\ LockRows(l) = {}) =>
               \A k \in booking_locks' : k.id # l
        /\ resp'.op \in {"release", "cleanup"} =>
             \A s \in Slots :
               slots'[s].available_capacity <=
                 slots[s].available_capacity
                   + SumCapacity({k \in removed : k.slot_id = s})]_vars

\* C12 witness: a release found nothing because the lock, expired by then,
\* had already been deleted
ReleaseLostTheRace ==
  /\ resp.op = "release"
  /\ resp.status = 404
  /\ Issued(resp.lock_id)
  /\ LockRows(resp.lock_id) = {}
  /\ now >= 120

\* C13: a cleanup cycle leaves no expired lock behind, and a cycle that runs
\* when no lock is expired deletes nothing, reports 0 and changes no slot:
\* the second of two cycles in immediate succession finds nothing.
IdempotentReaping ==
  [][(resp'.op = "cleanup" /\ resp'.status = 0) =>
       /\ \A l \in booking_locks' : l.lock_expires_at > now'
       /\ (\A l \in booking_locks : l.lock_expires_at > now) =>
            /\ resp'.count = 0
            /\ UNCHANGED <<booking_locks, slots>>]_vars

\* C13 witness: a cycle deleted two expired locks at once and none is left
ReapedAll ==
  /\ resp.op = "cleanup"
  /\ resp.count = 2
  /\ \A l \in booking_locks : l.lock_expires_at > now

\* C14: lock acquisition is one step: a step lowers a slot's
\* available_capacity exactly when it inserts a lock row for that slot, and
\* it lowers it by the row's reserved_capacity.
AcquireIsAtomic ==
  [][\A s \in Slots :
       LET inserted == {k \in booking_locks' \ booking_locks : k.slot_id = s}
       IN /\ slots'[s].available_capacity =
               slots[s].available_capacity - SumCapacity(inserted)
          /\ Cardinality(inserted) <= 1]_vars

\* C14 witness: a lock has just been acquired
LockAcquired ==
  /\ resp.op = "lock"
  /\ resp.status = 200
  /\ LockRows(resp.lock_id) # {}

\* C15: an acquisition of N >= 1 on a slot that is not available or has
\* available_capacity < N is answered 409 and leaves slots and booking_locks
\* unchanged.
AcquireRefusedChangesNothing ==
  [][\A s \in Slots, sid \in Sessions, n \in 1..MaxCapacity :
       ( /\ AcquireLock(s, sid, n)
         /\ ~slots[s].is_available \/ slots[s].available_capacity < n ) =>
         /\ resp'.op = "lock" /\ resp'.status = 409
         /\ UNCHANGED <<slots, booking_locks, nextLockId>>]_vars

\* C15 witness: an acquisition was refused on an available slot whose
\* capacity is taken up by a lock
AcquireRefused ==
  /\ resp.op = "lock"
  /\ resp.status = 409
  /\ \E s \in Slots : slots[s].is_available /\ slots[s].available_capacity = 0
  /\ booking_locks # {}

\* ------------------------------------------------------------ retry queue
QueueIds == 1..Len(queue_jobs)

\* job j is held by no sweep
Unheld(j) == \A w \in Sweeps : sweep[w][j].pc = "none"

\* job j of a paid booking ended failed and no invocation of its side
\* effect succeeded
Exhausted(j) ==
  /\ queue_jobs[j].booking = "paid"
  /\ queue_jobs[j].status = "failed"
  /\ ~queue_jobs[j].succeeded

\* C16: a job whose side effect fails on every invocation is failed after
\* exactly MAX_RETRIES invocations, and from then on no sweep selects it.
RetryExhaustion ==
  [][\A j \in QueueIds :
       Exhausted(j) =>
         /\ queue_jobs[j].calls = MAX_RETRIES
         /\ \A w \in Sweeps :
              sweep'[w][j].pc = "mark" => sweep[w][j].pc = "mark"]_vars

\* C17: a job that is pending or processing has attempts < MAX_RETRIES.
AttemptsBelowMax ==
  \A j \in QueueIds :
    queue_jobs[j].status \in {"pending", "processing"} =>
      queue_jobs[j].attempts < MAX_RETRIES

\* C17 witness: a job was retried until its last attempt failed
LastAttemptFailed ==
  \E j \in QueueIds :
    /\ Exhausted(j)
    /\ queue_jobs[j].attempts = MAX_RETRIES - 1
    /\ queue_jobs[j].calls = MAX_RETRIES

\* the status changes of the job state machine
JobTransitions ==
  {<<"pending", "processing">>, <<"processing", "completed">>,
   <<"processing", "pending">>, <<"processing", "failed">>}

\* C18: a job's status changes only along pending -> processing,
\* processing -> completed, processing -> pending and processing -> failed;
\* a completed or failed job keeps its status.
StatusStateMachine ==
  [][\A j \in QueueIds :
       \/ queue_jobs'[j].status = queue_jobs[j].status
       \/ <<queue_jobs[j].status, queue_jobs'[j].status>> \in JobTransitions]_vars

\* C19: a job left processing by a crashed worker is selected by the sweep
\* once its started_at is older than the stale threshold.
StaleProcessingReclaimed ==
  \A j \in QueueIds :
    ( /\ queue_jobs[j].status = "processing"
      /\ Unheld(j)
      /\ queue_jobs[j].started_at < now - StaleThreshold ) =>
      j \in Selected

\* C20: once the post-commit step of a successful createBooking has run, the
\* queue holds a job for that booking.
InvoiceJobEnqueued ==
  \A r \in Reqs :
    (req[r].pc = "done" /\ req[r].invoice # "none") =>
      \E j \in QueueIds : queue_jobs[j].booking_id = r

InvoicedShortCircuit ==
  [][\A w \in Sweeps, j \in QueueIds :
       ( /\ \E success \in BOOLEAN : processReceiptJob(w, j, success)
         /\ queue_jobs[j].booking = "invoiced" ) =>
         /\ queue_jobs'[j].status = "completed"
         /\ queue_jobs'[j].calls = 0]_vars

\* C28 witness: a job of an invoiced booking is completed without a call
InvoicedCompleted ==
  \E j \in QueueIds :
    /\ queue_jobs[j].booking = "invoiced"
    /\ queue_jobs[j].status = "completed"
    /\ queue_jobs[j].calls = 0
    /\ Unheld(j)

\* C29: processing one job of a sweep, whatever its outcome, leaves the other
\* jobs the sweep holds and their rows as they are, so each is still
\* processed.
JobFailuresIsolated ==
  [][\A w \in Sweeps, j \in QueueIds :
       (\E success \in BOOLEAN : processReceiptJob(w, j, success)) =>
         \A k \in QueueIds \ {j} :
           /\ sweep'[w][k] = sweep[w][k]
           /\ queue_jobs'[k] = queue_jobs[k]]_vars

\* C29 witness: of two jobs marked at the same time, one failed its attempt
\* and the other was completed by a call
FailedBesideCompleted ==
  \E j, k \in QueueIds :
    /\ queue_jobs[j].status = "pending"
    /\ queue_jobs[j].attempts = 1
    /\ queue_jobs[j].calls = 1
    /\ queue_jobs[k].status = "completed"
    /\ queue_jobs[k].calls = 1
    /\ queue_jobs[k].started_at = queue_jobs[j].started_at
    /\ Unheld(j) /\ Unheld(k)

\* C30: a sweep selects only pending jobs whose started_at is null or older
\* than the stale threshold, and a job with a failed attempt is selected no
\* earlier than its backoff delay after that attempt started.
RetryWaitsForBackoff ==
  [][\A w \in Sweeps, j \in QueueIds :
       (sweep[w][j].pc = "none" /\ sweep'[w][j].pc = "mark") =>
         /\ queue_jobs[j].status = "pending"
         /\ \/ queue_jobs[j].started_at = -1
            \/ queue_jobs[j].started_at < now - StaleThreshold
         /\ queue_jobs[j].attempts > 0 =>
              (now - queue_jobs[j].started_at) * 1000 >=
                calculateDelay(queue_jobs[j].attempts)]_vars

\* C30 witness: a job whose attempt failed has been selected again
RetrySelected ==
  \E w \in Sweeps, j \in QueueIds :
    /\ sweep[w][j].pc = "mark"
    /\ queue_jobs[j].status = "pending"
    /\ queue_jobs[j].attempts = 1
    /\ queue_jobs[j].started_at < now - StaleThreshold

\* --------------------------------------------------- after the commit
\* C21: a step of the invoice or ticket callback, whatever its outcome,
\* leaves the booking committed and the response as it was, and a commit is
\* always answered 201.
PostCommitFailuresConfined ==
  [][\A r \in Reqs :
       /\ Commits(r) => resp'.status = 201
       /\ (req'[r].invoice # req[r].invoice \/ req'[r].ticket # req[r].ticket) =>
            /\ req'[r].pc = "done"
            /\ \E b \in bookings' : b.id = r
            /\ UNCHANGED <<bookings, resp, slots, booking_locks>>]_vars

\* C21 witness: invoice issuance and ticket generation both failed for a
\* committed booking
PostCommitAllFailed ==
  \E r \in Reqs :
    /\ req[r].pc = "done"
    /\ req[r].invoice = "failed"
    /\ req[r].ticket = "no_pdf"
    /\ \E b \in bookings : b.id = r

\* C27: the commit of a createBooking that presented a lock shows the
\* booking row and the lock's deletion in one step: the step adds the booking
\* and leaves no row with the lock's id, no other step of the call changes
\* bookings or booking_locks, and a booking made with a lock never coexists
\* with that lock.
LockConsumedWithCommit ==
  [][\A r \in Reqs :
       req[r].lock_id # 0 =>
         /\ Commits(r) =>
              /\ \E b \in bookings' \ bookings : b.id = r
              /\ \A l \in booking_locks' : l.id # req[r].lock_id
         /\ (req'[r] # req[r] /\ ~Commits(r)) =>
              UNCHANGED <<bookings, booking_locks>>
         /\ (\E b \in bookings : b.id = r) => PresentedLock(r) = {}]_vars

\* C27 witness: the commit of a booking has deleted the lock presented with
\* it while another lock is still held
LockConsumed ==
  \E r \in Reqs :
    /\ req[r].pc = "done"
    /\ req[r].deleted
    /\ PresentedLock(r) = {}
    /\ booking_locks # {}
    /\ \E b \in bookings : b.id = r

\* C25: every slot has booked_count >= 0 and remaining_capacity and
\* available_capacity between 0 and total_capacity.
SlotBounds ==
  \A s \in Slots :
    /\ 0 <= slots[s].booked_count
    /\ 0 <= slots[s].remaining_capacity
    /\ slots[s].remaining_capacity <= slots[s].total_capacity
    /\ 0 <= slots[s].available_capacity
    /\ slots[s].available_capacity <= slots[s].total_capacity

\* C25 witness: locks have taken all the capacity of a slot that also has a
\* confirmed booking
SlotExhausted ==
  \E s \in Slots :
    /\ slots[s].total_capacity = MaxCapacity
    /\ slots[s].available_capacity = 0
    /\ UnexpiredLocks(s) # {}
    /\ ConfirmedBookings(s) # {}

\* ------------------------------------------------------------- backoff
\* C23: the delays calculateDelay gives are non-decreasing in the attempt
\* number and never above MAX_DELAY.
BackoffGrowth ==
  \A i, k \in DOMAIN backoff :
    /\ backoff[i].delay <= MAX_DELAY
    /\ backoff[i].attempt <= backoff[k].attempt => backoff[i].delay <= backoff[k].delay

\* C23 witness: a delay below the cap, doubled from the base, and the delay
\* of a later attempt at the cap
BackoffCapped ==
  \E i, k \in DOMAIN backoff :
    /\ backoff[i].attempt < backoff[k].attempt
    /\ backoff[i].attempt > 0
    /\ backoff[i].delay = INITIAL_DELAY * 2^(backoff[i].attempt)
    /\ backoff[i].delay < MAX_DELAY
    /\ backoff[k].delay = MAX_DELAY

\* ------------------------------------------------------------- start-up
\* C24: from its start the cleanup job has been called once at once and
\* once per interval passed, whether or not earlier cycles failed, and its
\* timer stays set.
ReaperKeepsRunning ==
  IF server.pc = "listening"
  THEN /\ server.cleanupInterval
       /\ server.cycles = 1 + now \div TickSeconds
       /\ server.pending <= server.cycles
  ELSE server.cycles = 0

\* C24 witness: after a cycle failed, a later cycle ran and deleted an
\* expired lock
ReapedAfterFailure ==
  /\ server.failed >= 1
  /\ resp.op = "cleanup"
  /\ resp.status = 0
  /\ resp.count >= 1

\* C26: the server listens and its background jobs run only after a
\* connection test succeeded; at most maxRetries tests are made and none
\* after a success.
StartsAfterConnection ==
  /\ server.attempt <= maxRetries
  /\ server.connected => server.pc # "testing"
  /\ (server.pc = "listening" \/ server.cleanupInterval \/ server.receiptWorker) =>
       server.connected

\* ------------------------------------------------------------ head counts
\* C31: every booking row has visitor_count = adult_count + child_count,
\* status confirmed and payment_status unpaid, and a step that answers a
\* head-count mismatch creates nothing.
HeadCountsAddUp ==
  /\ \A b \in bookings :
       /\ b.visitor_count = b.adult_count + b.child_count
       /\ b.status = "confirmed"
       /\ b.payment_status = "unpaid"
  /\ resp.error = "headcount_mismatch" => ~resp.wrote

\* ---------------------------------------------------------- lock hand-over
\* C32: a lock is consumed by at most one booking: two createBooking calls
\* that present the same lock id never both commit a booking.
LockConsumedOnce ==
  \A r1, r2 \in Reqs :
    ( /\ r1 # r2
      /\ req[r1].lock_id # 0
      /\ req[r1].lock_id = req[r2].lock_id
      /\ req[r1].pc = "done" )
    => req[r2].pc # "done"

\* C33: a createBooking that presents its session's own valid lock, for the
\* lock's slot and amount, is not answered insufficient capacity while the
\* lock is still held and unexpired.
OwnLockNotRefused ==
  [][\A r \in Reqs :
       ( /\ req[r].pc = "slotcheck"
         /\ req[r].lock_id # 0
         /\ req[r].lock \in booking_locks
         /\ req[r].lock.lock_expires_at > now
         /\ req'[r].pc = "idle" )
       => resp'.error # "insufficient_capacity"]_vars

\* the transactions between their lock validation and their commit
InWindow(r) == req[r].lock_id # 0 /\ req[r].pc \in {"slotcheck", "insert", "commit"}

\* C34: a step of the lock cleanup or of releaseLock that deletes a lock
\* presented by a createBooking between its lock validation and its commit
\* leaves the slot's capacity as it was, so the booking that then commits
\* never stands beside capacity given back for the same lock.
LockAccountedOnce ==
  [][\A r \in Reqs :
       ( /\ InWindow(r)
         /\ req[r].lock \in booking_locks
         /\ req[r].lock \notin booking_locks'
         /\ resp'.op \in {"release", "cleanup"} )
       => slots'[req[r].lock.slot_id].available_capacity
            = slots[req[r].lock.slot_id].available_capacity]_vars

\* a booking committed with a lock that was gone at its commit, deleted by
\* the cleanup or by a release and not by another booking
BookedAfterLockGone ==
  \E r \in Reqs :
    /\ req[r].pc = "done"
    /\ req[r].lock_id # 0
    /\ ~req[r].deleted
    /\ \A q \in Reqs \ {r} : req[q].lock_id # req[r].lock_id

\* --------------------------------------------------- one sweep for a job
\* C35: at most one invocation of the side effect is in flight for a job:
\* no two sweeps are in processReceiptJob for the same job at once.
SingleInvocation ==
  \A j \in QueueIds :
    Cardinality({w \in Sweeps : sweep[w][j].pc = "process"}) <= 1

\* C36: processing a job whose booking is not paid and has no invoice id
\* marks it failed without a call of generateReceipt and without a change of
\* its attempts; once failed it never is pending again and no sweep selects it.
UnpaidFailsAtOnce ==
  [][\A j \in QueueIds :
       queue_jobs[j].booking = "unpaid" =>
         /\ \A w \in Sweeps :
              (\E success \in BOOLEAN : processReceiptJob(w, j, success)) =>
                /\ queue_jobs'[j].status = "failed"
                /\ queue_jobs'[j].calls = 0
                /\ queue_jobs'[j].attempts = 0
                /\ queue_jobs'[j].payload_attempt = 0
         /\ queue_jobs[j].status = "failed" =>
              /\ queue_jobs'[j].status # "pending"
              /\ \A w \in Sweeps :
                   sweep'[w][j].pc = "mark" => sweep[w][j].pc = "mark"]_vars

\* C36 witness: a job of an unpaid booking is failed after its first
\* processing, without a call and with attempts 0, while time has passed
UnpaidFailed ==
  \E j \in QueueIds :
    /\ queue_jobs[j].booking = "unpaid"
    /\ queue_jobs[j].status = "failed"
    /\ queue_jobs[j].calls = 0
    /\ queue_jobs[j].attempts = 0
    /\ Unheld(j)
    /\ now > queue_jobs[j].started_at + StaleThreshold

\* ------------------------------------------------------------- QR codes
\* C37: a booking's QR code is accepted at most once: no two validate-qr
\* calls for the same booking are both answered success.
QrAcceptedOnce ==
  \A c1, c2 \in Cashiers :
    (c1 # c2 /\ scan[c1].pc = "done" /\ scan[c2].pc = "done")
      => scan[c1].booking_id # scan[c2].booking_id

\* ------------------------------------------------- transaction and client
\* C38: every answer of createBooking leaves its pooled client with the
\* transaction ended by exactly one COMMIT or ROLLBACK (COMMIT exactly when
\* the answer is 201) and released exactly once.
TransactionEndedOnce ==
  resp.op = "create" =>
    /\ resp.client.tx = IF resp.status = 201 THEN "committed" ELSE "rolledback"
    /\ resp.client.ended = 1
    /\ resp.client.released = 1

\* C38 witness: an exception after the INSERT was answered 500 with the
\* transaction rolled back and the client released
RolledBackAfterInsert ==
  /\ resp.op = "create"
  /\ resp.status = 500
  /\ resp.wrote
  /\ resp.client.tx = "rolledback"
  /\ resp.client.released = 1

\* ---------------------------------------------------------- cleanup timer
\* C39: at most one cleanup timer is set at any time; a call of
\* startLockCleanup while the timer is set changes nothing, and while no
\* timer is set no cycle is started except by startLockCleanup.
SingleReaperTimer ==
  [][/\ server'.timers <= 1
     /\ (server.cleanupInterval /\ CallStartLockCleanup) => server' = server
     /\ (~server.cleanupInterval /\ ~server'.cleanupInterval) =>
          server'.cycles = server.cycles]_vars

\* C39 witness: the timer is set again after a stop: two cycles were started
\* by startLockCleanup before any interval elapsed
ReaperRestarted ==
  /\ server.timers = 1
  /\ server.cleanupInterval
  /\ server.cycles >= 2
  /\ now = 0

====
